---------------------------- MODULE Spec2Model ----------------------------
(***************************************************************************)
(* NYC Airbnb dashboard (NY_AIRBnB.py): the listing filter, the landmark    *)
(* buffer queries and the value score, as the Streamlit script computes    *)
(* them on every run.                                                      *)
(*                                                                         *)
(* Units.  Coordinates are integers in micro-degrees (1e-6 degree), prices *)
(* are whole dollars, review_scores_rating is in tenths (45 is 4.5).  A    *)
(* float quotient is kept as an exact fraction <<n, d>>; d = 0 holds the   *)
(* IEEE results of a division by zero (<<1, 0>> is inf, <<0, 0>> is NaN).  *)
(***************************************************************************)
EXTENDS Integers, Sequences, FiniteSets, TLC

VARIABLES
    cache,                  \* what st.cache_data keeps of load_data()'s table
    widget,                 \* the sidebar widgets' session state
    pc,                     \* where the script run stands
    bound,                  \* the names the current run has assigned
    df,                     \* the raw listing table of this run
    price_range,            \* the slider's value <<lo, hi>>
    borough_filter,         \* the multiselect's value
    filtered_df,            \* df[mask], later with its value_score column
    gdf,                    \* the GeoDataFrame built from filtered_df
    central_park_listings,  \* gdf[gdf.within(buffers["Central Park"])]
    sol_listings,           \* gdf[gdf.within(buffers["Statue of Liberty"])]
    park_zone               \* the coordinates GEOS puts within Central Park's buffer

vars == <<cache, widget, pc, bound, df, price_range, borough_filter,
          filtered_df, gdf, central_park_listings, sol_listings, park_zone>>

---------------------------------------------------------------------------
(* Bounds of the model *)

\* the longest listing table the dashboard loads
MaxRows == 3

\* the longest listing table an operation is called on
MaxCallRows == 2

---------------------------------------------------------------------------
(* Values *)

\* pandas' missing value in the numeric price column (prices are >= 0)
NaN == -1

\* pandas' missing value in the neighbourhood_group column
NoBorough == "NaN"

\* the slider's default value, (50, 300)
DefaultLow == 50
DefaultHigh == 300

\* geom.buffer(0.02), in micro-degrees
BufferDistance == 20000

\* shapely's default number of segments per quarter circle
QuadSegs == 16

\* Point(-74.0445, 40.6892)
StatueOfLiberty == <<-74044500, 40689200>>

\* the ring given to Polygon(...) for Central Park, as written
CentralParkRing ==
    << <<-73973000, 40764200>>, <<-73958700, 40800500>>,
       <<-73981400, 40796900>>, <<-73949200, 40764200>> >>

landmarks ==
    [park |-> [kind |-> "Polygon", ring |-> CentralParkRing],
     statue |-> [kind |-> "Point", at |-> StatueOfLiberty]]

---------------------------------------------------------------------------
(* The listing tables the model draws from *)

Listing(p, b, rv, pt) ==
    [price |-> p, neighbourhood_group |-> b,
     number_of_reviews |-> rv[1], review_scores_rating |-> rv[2],
     longitude |-> pt[1], latitude |-> pt[2]]

Offset(pt, dx, dy) == <<pt[1] + dx, pt[2] + dy>>

NearLiberty == <<-74044000, 40689500>>      \* 0.0006 degrees from the statue
FarAway     == <<-73900000, 40700000>>      \* 0.14 degrees from the statue
InPark      == <<-73965400, 40782900>>      \* the middle of Central Park
OnVertex    == Offset(StatueOfLiberty, BufferDistance, 0)   \* at distance d, due east
OnCircle    == Offset(StatueOfLiberty, 12000, 16000)        \* at distance d (3-4-5)
PastChord   == Offset(StatueOfLiberty, 19960, 980)          \* at 0.99922 d
WellInside  == Offset(StatueOfLiberty, 19950, 0)            \* at 0.9975 d
JustOutside == Offset(StatueOfLiberty, BufferDistance + 1, 0)

Boroughs == {"Manhattan", "Brooklyn"}
Places   == {NearLiberty, FarAway, InPark}
\* coordinates on both sides of the buffer's first edges, east of the statue
EastGrid ==
    {Offset(StatueOfLiberty, x, y) :
        x \in {19900, 19940, 19976, 19990}, y \in {0, 980, 1960}}
GeoPlaces ==
    Places \cup {OnVertex, OnCircle, PastChord, WellInside, JustOutside}
           \cup EastGrid

\* the rows of the dashboard's tables, as (number_of_reviews, rating in
\* tenths): free listings with and without reviews, listings at 90 in both
\* boroughs near and far from the statue, one at 300 in the park, and one
\* whose price is missing
DashListings ==
    {Listing(0, "Manhattan", rv, NearLiberty) : rv \in {<<5, 50>>, <<0, 45>>}}
    \cup {Listing(90, b, <<10, 45>>, pt) :
              b \in Boroughs, pt \in {NearLiberty, FarAway}}
    \cup {Listing(300, "Manhattan", <<5, 50>>, InPark),
          Listing(NaN, "Brooklyn", <<10, 45>>, NearLiberty)}

\* the rows filter is called on: prices on and next to the bounds, boroughs
\* present and missing
FilterListings ==
    {Listing(p, b, <<10, 45>>, NearLiberty) :
        p \in {NaN, 0, 49, 50, 300, 301}, b \in Boroughs \cup {NoBorough}}

\* the rows the membership queries are called on
GeoListings ==
    {Listing(90, "Manhattan", <<10, 45>>, pt) : pt \in GeoPlaces}

PriceBounds == {0, 50, 300}

\* pd.read_csv gives the rows a RangeIndex 0, 1, ...
WithIndex(rows) ==
    [i \in 1..Len(rows) |->
        [index |-> i - 1,
         price |-> rows[i].price,
         neighbourhood_group |-> rows[i].neighbourhood_group,
         number_of_reviews |-> rows[i].number_of_reviews,
         review_scores_rating |-> rows[i].review_scores_rating,
         longitude |-> rows[i].longitude,
         latitude |-> rows[i].latitude]]

Tables(S, longest) ==
    UNION {{WithIndex(rows) : rows \in [1..n -> S]} : n \in 0..longest}

Range(s) == {s[i] : i \in 1..Len(s)}

---------------------------------------------------------------------------
(* Data filtering (lines 55-59) *)

\* faulty variant: the lower bound taken as exclusive
BetweenExclusive(x, left, right) == x # NaN /\ left < x /\ x <= right

\* faulty variant: the bounds put in order before comparing
BetweenOrdered(x, left, right) ==
    /\ x # NaN
    /\ (IF left <= right THEN left ELSE right) <= x
    /\ x <= (IF left <= right THEN right ELSE left)

\* Series.between(left, right), inclusive on both sides; a missing value
\* compares false
Between(x, left, right) == x # NaN /\ left <= x /\ x <= right

\* Series.isin(values); pandas matches a missing value against a missing value
IsIn(x, values) == x \in values

Mask(row, range, boroughs) ==
    /\ Between(row.price, range[1], range[2])
    /\ IsIn(row.neighbourhood_group, boroughs)

Reverse(s) == [i \in 1..Len(s) |-> s[Len(s) + 1 - i]]

\* faulty variant: the matching rows, last first
DataFilteringReversed(table, range, boroughs) ==
    Reverse(SelectSeq(table, LAMBDA row : Mask(row, range, boroughs)))

\* df[mask]: the rows whose mask is true, with their index labels, in order
DataFiltering(table, range, boroughs) ==
    SelectSeq(table, LAMBDA row : Mask(row, range, boroughs))

---------------------------------------------------------------------------
(* Value score (lines 203-206) *)

RECURSIVE GCD(_, _)
GCD(a, b) == IF b = 0 THEN a ELSE GCD(b, a % b)

\* float division of n >= 0 by d >= 0: numpy gives inf for n/0 and NaN for
\* 0/0, and raises nothing
Infinite == <<1, 0>>
Undefined == <<0, 0>>

Quotient(n, d) ==
    IF d = 0 THEN (IF n = 0 THEN Undefined ELSE Infinite)
    ELSE LET g == GCD(n, d) IN <<n \div g, d \div g>>

\* faulty variant: the rating left out of the product
value_scoreNoRating(row) ==
    IF row.price = NaN THEN Undefined
    ELSE Quotient(row.number_of_reviews, row.price)

\* number_of_reviews * review_scores_rating / price (the rating is in tenths)
value_score(row) ==
    IF row.price = NaN THEN Undefined
    ELSE Quotient(row.number_of_reviews * row.review_scores_rating,
                  10 * row.price)

\* filtered_df['value_score'] = ...: the column is added to filtered_df
AddValueScore(table) ==
    [i \in 1..Len(table) |->
        [index |-> table[i].index,
         price |-> table[i].price,
         neighbourhood_group |-> table[i].neighbourhood_group,
         number_of_reviews |-> table[i].number_of_reviews,
         review_scores_rating |-> table[i].review_scores_rating,
         longitude |-> table[i].longitude,
         latitude |-> table[i].latitude,
         value_score |-> value_score(table[i])]]

\* folium's HeatMap refuses data that holds a NaN
HeatMapRaises(table) ==
    \E i \in 1..Len(table) : table[i].value_score = Undefined

---------------------------------------------------------------------------
(* Landmark buffers (lines 138-155) *)

\* round(BufferDistance * cos(k * pi / (2 * QuadSegs))), k = 0..QuadSegs
CosTable ==
    <<20000, 19904, 19616, 19139, 18478, 17638, 16629, 15460, 14142,
      12688, 11111, 9428, 7654, 5806, 3902, 1960, 0>>

\* the k-th point of the circle that buffer() draws around a point: the
\* radius at angle k * pi / (2 * QuadSegs)
Fillet(k) ==
    LET q == k \div QuadSegs
        j == k % QuadSegs
        c == CosTable[j + 1]
        s == CosTable[QuadSegs - j + 1]
    IN  CASE q = 0 -> <<c, s>>
          [] q = 1 -> <<-s, c>>
          [] q = 2 -> <<-c, -s>>
          [] OTHER -> <<s, -c>>

\* Point.buffer(0.02): the polygon through the 4 * QuadSegs fillet points
PointBuffer(centre) ==
    [k \in 1..(4 * QuadSegs) |->
        Offset(centre, Fillet(k - 1)[1], Fillet(k - 1)[2])]

Cross(a, b, p) ==
    (b[1] - a[1]) * (p[2] - a[2]) - (b[2] - a[2]) * (p[1] - a[1])

\* faulty variant: the boundary counted in
WithinPolygonClosed(p, poly) ==
    \A k \in 1..Len(poly) :
        Cross(poly[k], poly[(k % Len(poly)) + 1], p) >= 0

\* a point is within a polygon when it lies in its interior: a point on the
\* boundary is not within
WithinPolygon(p, poly) ==
    \A k \in 1..Len(poly) :
        Cross(poly[k], poly[(k % Len(poly)) + 1], p) > 0

Min(S) == CHOOSE x \in S : \A y \in S : x <= y
Max(S) == CHOOSE x \in S : \A y \in S : x >= y

\* Polygon(ring).buffer(0.02) lies within 0.02 of the ring's bounding box
InReach(p, ring) ==
    LET xs == {ring[i][1] : i \in 1..Len(ring)}
        ys == {ring[i][2] : i \in 1..Len(ring)}
    IN  /\ Min(xs) - BufferDistance <= p[1]
        /\ p[1] <= Max(xs) + BufferDistance
        /\ Min(ys) - BufferDistance <= p[2]
        /\ p[2] <= Max(ys) + BufferDistance

\* The Central Park ring crosses itself, and what GEOS's buffer makes of such
\* a ring is not defined by what the script states: any set of the
\* coordinates in reach may come out within it, the same set on every run.
ParkZones == SUBSET {p \in GeoPlaces : InReach(p, CentralParkRing)}

\* gdf.within(buffers[name])
Within(row, name) ==
    LET p == <<row.longitude, row.latitude>>
    IN  IF landmarks[name].kind = "Point"
        THEN WithinPolygon(p, PointBuffer(landmarks[name].at))
        ELSE p \in park_zone

\* gdf[gdf.within(buffers[name])]
SpatialQuery(table, name) ==
    SelectSeq(table, LAMBDA row : Within(row, name))

---------------------------------------------------------------------------
(* The dashboard: one run of the script, and the reruns the widgets start *)

\* the values the model drags the slider's ends to
SliderStops == {0, 50, 90, 300}

PricesPresent(table) == {row.price : row \in Range(table)} \ {NaN}

\* st.slider raises when the column has no price (int(nan)) or when its
\* default (50, 300) lies outside int(df.price.min()) .. int(df.price.max())
SliderRaises(table) ==
    \/ PricesPresent(table) = {}
    \/ Min(PricesPresent(table)) > DefaultLow
    \/ Max(PricesPresent(table)) < DefaultHigh

\* df.neighbourhood_group.unique()
BoroughOptions(table) == {row.neighbourhood_group : row \in Range(table)}

NoTable == <<>>

\* a run starts with none of the script's names assigned
FreshRun ==
    /\ pc' = "load_data"
    /\ bound' = {}
    /\ df' = NoTable
    /\ price_range' = <<0, 0>>
    /\ borough_filter' = {}
    /\ filtered_df' = NoTable
    /\ gdf' = NoTable
    /\ central_park_listings' = NoTable
    /\ sol_listings' = NoTable

Init ==
    /\ cache \in Tables(DashListings, MaxRows)
    /\ park_zone \in ParkZones
    /\ widget = [drawn |-> FALSE, slider |-> <<DefaultLow, DefaultHigh>>,
                 multiselect |-> {}]
    /\ pc = "load_data"
    /\ bound = {}
    /\ df = NoTable
    /\ price_range = <<0, 0>>
    /\ borough_filter = {}
    /\ filtered_df = NoTable
    /\ gdf = NoTable
    /\ central_park_listings = NoTable
    /\ sol_listings = NoTable

\* lines 18-34: st.cache_data hands every run a copy of the cached table
load_data ==
    /\ pc = "load_data"
    /\ df' = cache
    /\ bound' = bound \cup {"df"}
    /\ pc' = "sidebar"
    /\ UNCHANGED <<cache, widget, price_range, borough_filter, filtered_df,
                   gdf, central_park_listings, sol_listings, park_zone>>

\* lines 42-53: the widgets give their defaults on the first run and their
\* session state afterwards
Sidebar ==
    /\ pc = "sidebar"
    /\ IF SliderRaises(df)
       THEN /\ pc' = "exception"
            /\ UNCHANGED <<widget, price_range, borough_filter, bound>>
       ELSE /\ widget' =
                  IF widget.drawn THEN widget
                  ELSE [drawn |-> TRUE,
                        slider |-> <<DefaultLow, DefaultHigh>>,
                        multiselect |-> BoroughOptions(df)]
            /\ price_range' = widget'.slider
            /\ borough_filter' = widget'.multiselect
            /\ bound' = bound \cup {"price_range", "borough_filter"}
            /\ pc' = "filtering"
    /\ UNCHANGED <<cache, df, filtered_df, gdf, central_park_listings,
                   sol_listings, park_zone>>

\* lines 55-59
Filtering ==
    /\ pc = "filtering"
    /\ filtered_df' = DataFiltering(df, price_range, borough_filter)
    /\ bound' = bound \cup {"filtered_df"}
    /\ pc' = "tab3"
    /\ UNCHANGED <<cache, widget, df, price_range, borough_filter, gdf,
                   central_park_listings, sol_listings, park_zone>>

\* faulty variant: the queries run on the raw table
LandmarkImpactOnRaw ==
    /\ pc = "tab3"
    /\ gdf' = df
    /\ central_park_listings' = SpatialQuery(df, "park")
    /\ sol_listings' = SpatialQuery(df, "statue")
    /\ bound' = bound \cup {"gdf", "landmarks", "buffers",
                            "central_park_listings", "sol_listings"}
    /\ pc' = "best_value"
    /\ UNCHANGED <<cache, widget, df, price_range, borough_filter,
                   filtered_df, park_zone>>

\* lines 131-168: the landmarks are built and buffered, and the two queries
\* run on the filtered table
LandmarkImpact ==
    /\ pc = "tab3"
    /\ gdf' = filtered_df
    /\ central_park_listings' = SpatialQuery(filtered_df, "park")
    /\ sol_listings' = SpatialQuery(filtered_df, "statue")
    /\ bound' = bound \cup {"gdf", "landmarks", "buffers",
                            "central_park_listings", "sol_listings"}
    /\ pc' = "best_value"
    /\ UNCHANGED <<cache, widget, df, price_range, borough_filter,
                   filtered_df, park_zone>>

\* faulty variant: filtered_df a view of df: the column lands in the raw table too
BestValueOnView ==
    /\ pc = "best_value"
    /\ filtered_df' = AddValueScore(filtered_df)
    /\ df' = AddValueScore(df)
    /\ bound' = bound \cup {"value_score"}
    /\ pc' = IF HeatMapRaises(filtered_df') THEN "exception" ELSE "done"
    /\ UNCHANGED <<cache, widget, price_range, borough_filter, gdf,
                   central_park_listings, sol_listings, park_zone>>

\* lines 203-217: the score column, then the heat map over it
BestValue ==
    /\ pc = "best_value"
    /\ filtered_df' = AddValueScore(filtered_df)
    /\ bound' = bound \cup {"value_score"}
    /\ pc' = IF HeatMapRaises(filtered_df') THEN "exception" ELSE "done"
    /\ UNCHANGED <<cache, widget, df, price_range, borough_filter, gdf,
                   central_park_listings, sol_listings, park_zone>>

\* the user drags the slider: Streamlit stops the run and starts another
MoveSlider ==
    /\ widget.drawn
    /\ \E lo \in SliderStops, hi \in SliderStops :
          /\ Min(PricesPresent(cache)) <= lo
          /\ lo <= hi
          /\ hi <= Max(PricesPresent(cache))
          /\ <<lo, hi>> # widget.slider
          /\ widget' = [widget EXCEPT !.slider = <<lo, hi>>]
    /\ FreshRun
    /\ UNCHANGED <<cache, park_zone>>

\* the user changes the borough selection
SelectBoroughs ==
    /\ widget.drawn
    /\ \E B \in SUBSET BoroughOptions(cache) :
          /\ B # widget.multiselect
          /\ widget' = [widget EXCEPT !.multiselect = B]
    /\ FreshRun
    /\ UNCHANGED <<cache, park_zone>>

Next ==
    \/ load_data
    \/ Sidebar
    \/ Filtering
    \/ LandmarkImpact
    \/ BestValue
    \/ MoveSlider
    \/ SelectBoroughs

Spec == Init /\ [][Next]_vars

---------------------------------------------------------------------------
(* The operations on their own: each state is one call, on inputs of any   *)
(* kind, and its return                                                    *)

InitEngine ==
    /\ cache = NoTable
    /\ widget = [drawn |-> FALSE, slider |-> <<DefaultLow, DefaultHigh>>,
                 multiselect |-> {}]
    /\ park_zone \in ParkZones
    /\ bound = {}
    /\ filtered_df = NoTable
    /\ central_park_listings = NoTable
    /\ sol_listings = NoTable
    /\ \/ /\ pc = "call_filter"
          /\ df \in Tables(FilterListings, MaxCallRows)
          /\ price_range \in PriceBounds \X PriceBounds
          /\ borough_filter \in SUBSET (Boroughs \cup {NoBorough})
          /\ gdf = NoTable
       \/ /\ pc = "call_membership"
          /\ gdf \in Tables(GeoListings, MaxCallRows)
          /\ df = NoTable
          /\ price_range = <<0, 0>>
          /\ borough_filter = {}

\* filter(listings, priceMin, priceMax, boroughs)
CallFilter ==
    /\ pc = "call_filter"
    /\ filtered_df' = DataFiltering(df, price_range, borough_filter)
    /\ bound' = {"filtered_df"}
    /\ pc' = "returned"
    /\ UNCHANGED <<cache, widget, df, price_range, borough_filter, gdf,
                   central_park_listings, sol_listings, park_zone>>

\* membershipQuery(listings, landmark, bufferDistance), for both landmarks
CallMembership ==
    /\ pc = "call_membership"
    /\ central_park_listings' = SpatialQuery(gdf, "park")
    /\ sol_listings' = SpatialQuery(gdf, "statue")
    /\ bound' = {"central_park_listings", "sol_listings"}
    /\ pc' = "returned"
    /\ UNCHANGED <<cache, widget, df, price_range, borough_filter,
                   filtered_df, gdf, park_zone>>

NextEngine == CallFilter \/ CallMembership

SpecEngine == InitEngine /\ [][NextEngine]_vars

---------------------------------------------------------------------------
(* The properties *)

Lo == price_range[1]
Hi == price_range[2]

Coord(row) == <<row.longitude, row.latitude>>

\* a row with its price and its borough
WellFormed(row) == row.price # NaN /\ row.neighbourhood_group # NoBorough

\* the row's price and borough satisfy the criteria
Matches(row, range, boroughs) ==
    /\ row.price # NaN
    /\ range[1] <= row.price
    /\ row.price <= range[2]
    /\ row.neighbourhood_group \in boroughs

\* the row without its value_score column
Core(row) ==
    [index |-> row.index,
     price |-> row.price,
     neighbourhood_group |-> row.neighbourhood_group,
     number_of_reviews |-> row.number_of_reviews,
     review_scores_rating |-> row.review_scores_rating,
     longitude |-> row.longitude,
     latitude |-> row.latitude]

\* how many rows of the table carry the index label
Copies(table, label) ==
    Cardinality({j \in 1..Len(table) : table[j].index = label})

Abs(x) == IF x < 0 THEN -x ELSE x

\* the planar distance of p and q, squared, is at most (less than) d squared
WithinDistance(p, q, d) ==
    /\ Abs(p[1] - q[1]) <= d
    /\ Abs(p[2] - q[2]) <= d
    /\ (p[1] - q[1]) * (p[1] - q[1]) + (p[2] - q[2]) * (p[2] - q[2]) <= d * d

StrictlyWithinDistance(p, q, d) ==
    /\ Abs(p[1] - q[1]) <= d
    /\ Abs(p[2] - q[2]) <= d
    /\ (p[1] - q[1]) * (p[1] - q[1]) + (p[2] - q[2]) * (p[2] - q[2]) < d * d

FilterReturned == pc = "returned" /\ "filtered_df" \in bound
MembershipReturned == pc = "returned" /\ "sol_listings" \in bound

\* C1: with priceMin <= priceMax, filter keeps a listing exactly when
\* priceMin <= price <= priceMax and its borough is selected, both bounds
\* included; with no borough selected the result is empty.
C1_FilterKeepsExactlyTheMatches ==
    (FilterReturned /\ Lo <= Hi) =>
        /\ \A i \in 1..Len(df) :
              WellFormed(df[i]) =>
                  (df[i] \in Range(filtered_df)
                      <=> /\ Lo <= df[i].price
                          /\ df[i].price <= Hi
                          /\ df[i].neighbourhood_group \in borough_filter)
        /\ (borough_filter = {} => filtered_df = <<>>)

\* a listing priced exactly priceMin is kept and one priced a dollar less,
\* in a selected borough, is dropped
C1_Witness ==
    /\ FilterReturned
    /\ Lo < Hi
    /\ \E row \in Range(df) : row.price = Lo /\ row \in Range(filtered_df)
    /\ \E row \in Range(df) :
          /\ row.price = Lo - 1
          /\ row.neighbourhood_group \in borough_filter
          /\ row \notin Range(filtered_df)

\* C5: with priceMin > priceMax, filter returns the empty table, whatever the
\* listings and the boroughs, and it returns.
C5_InvertedRangeGivesEmpty ==
    /\ (pc = "call_filter" => ENABLED CallFilter)
    /\ (FilterReturned /\ Lo > Hi) => filtered_df = <<>>

\* the bounds are inverted and a listing in a selected borough is priced
\* between them
C5_Witness ==
    /\ FilterReturned
    /\ Lo > Hi
    /\ \E row \in Range(df) :
          /\ Hi <= row.price
          /\ row.price <= Lo
          /\ row.neighbourhood_group \in borough_filter

\* C9: filter's output holds the matching rows in the order of the input,
\* each once.
C9_FilterKeepsOrder ==
    FilterReturned =>
        /\ \A i \in 1..Len(filtered_df) :
              /\ filtered_df[i].index + 1 \in 1..Len(df)
              /\ filtered_df[i] = df[filtered_df[i].index + 1]
        /\ \A i \in 1..Len(filtered_df) : \A j \in 1..Len(filtered_df) :
              i < j => filtered_df[i].index < filtered_df[j].index

\* two rows pass the filter
C9_Witness == FilterReturned /\ Len(filtered_df) >= 2

\* C3 as stated: the Statue of Liberty query returns a listing exactly when
\* its planar distance to the landmark is at most the buffer distance, the
\* boundary included.
C3_DiscMembership ==
    MembershipReturned =>
        \A i \in 1..Len(gdf) :
            gdf[i] \in Range(sol_listings)
                <=> WithinDistance(Coord(gdf[i]), StatueOfLiberty, BufferDistance)

\* C3 as amended: every listing the query returns lies at a distance less
\* than the buffer distance, every listing at no more than 0.998 of it is
\* returned, and the listing at (-74.0440, 40.6895) is returned while the one
\* at (-73.9, 40.7) is not.
C3_PolygonMembership ==
    MembershipReturned =>
        \A i \in 1..Len(gdf) :
            /\ gdf[i] \in Range(sol_listings) =>
                  StrictlyWithinDistance(Coord(gdf[i]), StatueOfLiberty,
                                         BufferDistance)
            /\ WithinDistance(Coord(gdf[i]), StatueOfLiberty,
                              (BufferDistance * 998) \div 1000) =>
                  gdf[i] \in Range(sol_listings)
            /\ Coord(gdf[i]) = NearLiberty => gdf[i] \in Range(sol_listings)
            /\ Coord(gdf[i]) = FarAway => gdf[i] \notin Range(sol_listings)

\* the listing next to the statue is returned, and one inside the circle
\* but past the buffer's edge is not
C3_Witness ==
    /\ MembershipReturned
    /\ \E row \in Range(sol_listings) : Coord(row) = NearLiberty
    /\ \E row \in Range(gdf) :
          /\ Coord(row) = PastChord
          /\ row \notin Range(sol_listings)

\* C6: filter does not return on a table with a row that lacks its price or
\* its borough: it raises instead.
C6_MissingFieldFailsFast ==
    FilterReturned => \A i \in 1..Len(df) : WellFormed(df[i])

Scored == "value_score" \in bound

\* C2: a filtered listing priced 0 gets a sentinel score: computing the
\* scores ends in no unhandled failure and hands no infinite or undefined
\* value to the heat map.
C2_ZeroPriceGetsSentinel ==
    Scored =>
        /\ pc # "exception"
        /\ \A i \in 1..Len(filtered_df) :
              filtered_df[i].price = 0 =>
                  filtered_df[i].value_score \notin {Infinite, Undefined}

RingClosed(ring) == ring[1] = ring[Len(ring)]

\* twice the signed area of the ring, taken from its first vertex
TwiceArea(ring) ==
    LET x(i) == ring[i][1] - ring[1][1]
        y(i) == ring[i][2] - ring[1][2]
        term(i) == x(i) * y(i + 1) - x(i + 1) * y(i)
    IN  term(2) + (IF Len(ring) > 3 THEN term(3) ELSE 0)

Malformed(ring) == ~RingClosed(ring) \/ TwiceArea(ring) = 0

\* C4: a landmark polygon whose ring is not closed or has no area is rejected
\* when the landmarks are loaded: no membership subset is made for it.
C4_MalformedPolygonRejected ==
    Malformed(landmarks["park"].ring) => "central_park_listings" \notin bound

\* C7: once a run has computed the scores, the scored rows are the rows of
\* the raw table that match the criteria now set, each once; a scored row
\* with price > 0 has the score number_of_reviews * review_scores_rating /
\* price (10 reviews, rating 4.5, price 90 give 1/2); the raw table's rows
\* have no score.
C7_ScoresOfTheCurrentFilter ==
    Scored =>
        /\ \A i \in 1..Len(cache) :
              Copies(filtered_df, cache[i].index) =
                  IF Matches(cache[i], widget.slider, widget.multiselect)
                  THEN 1 ELSE 0
        /\ \A j \in 1..Len(filtered_df) :
              LET row == filtered_df[j]
                  score == row.value_score
              IN  /\ Core(row) \in Range(cache)
                  /\ row.price > 0 =>
                        /\ score[2] > 0
                        /\ score[1] * 10 * row.price =
                              row.number_of_reviews * row.review_scores_rating
                                  * score[2]
                  /\ (/\ row.number_of_reviews = 10
                      /\ row.review_scores_rating = 45
                      /\ row.price = 90) => score = <<1, 2>>
        /\ \A i \in 1..Len(df) : "value_score" \notin DOMAIN df[i]

\* after a change of the slider, a listing of 10 reviews, rating 4.5 and
\* price 90 is scored 1/2 and another listing is filtered out
C7_Witness ==
    /\ pc = "done"
    /\ widget.slider # <<DefaultLow, DefaultHigh>>
    /\ \E j \in 1..Len(filtered_df) :
          /\ filtered_df[j].price = 90
          /\ filtered_df[j].number_of_reviews = 10
          /\ filtered_df[j].value_score = <<1, 2>>
    /\ \E i \in 1..Len(df) :
          /\ df[i].price # NaN
          /\ Copies(filtered_df, df[i].index) = 0

\* the outputs a first run gives for the table and the criteria
FirstRunFiltered ==
    DataFiltering(cache, widget.slider, widget.multiselect)

C8_State ==
    /\ "df" \in bound => df = cache
    /\ "filtered_df" \in bound =>
          filtered_df = IF Scored THEN AddValueScore(FirstRunFiltered)
                                  ELSE FirstRunFiltered
    /\ "sol_listings" \in bound =>
          /\ sol_listings = SpatialQuery(FirstRunFiltered, "statue")
          /\ central_park_listings = SpatialQuery(FirstRunFiltered, "park")

\* C8: whatever runs came before, a run's filtered table, scores and
\* membership subsets are those a first run gives for the same table,
\* criteria and landmarks, and no run changes the raw table.
C8_RunsKeepNoState ==
    []C8_State /\ [][cache' = cache /\ park_zone' = park_zone]_vars

\* a run has finished after both widgets were changed, with rows kept
C8_Witness ==
    /\ pc = "done"
    /\ widget.slider # <<DefaultLow, DefaultHigh>>
    /\ widget.multiselect # BoroughOptions(cache)
    /\ Len(filtered_df) >= 1
    /\ Len(filtered_df) < Len(df)

\* C10: the filtered rows are rows of the raw table, the rows of each
\* landmark query are rows of the table it ran on, and every listing in a
\* landmark's buffer zone satisfies the price and borough criteria.
C10_ResultsAreSubsets ==
    /\ "filtered_df" \in bound =>
          \A i \in 1..Len(filtered_df) : Core(filtered_df[i]) \in Range(df)
    /\ "sol_listings" \in bound =>
          \A row \in Range(sol_listings) \cup Range(central_park_listings) :
              /\ row \in Range(gdf)
              /\ row \in Range(df)
              /\ Matches(row, price_range, borough_filter)

\* a listing is in a buffer zone while the filter has dropped another one
\* that has a price
C10_Witness ==
    /\ "sol_listings" \in bound
    /\ Len(sol_listings) + Len(central_park_listings) >= 1
    /\ \E i \in 1..Len(df) :
          /\ df[i].price # NaN
          /\ df[i] \notin Range(gdf)

===========================================================================
